---- MODULE Spec2Model ----
(***************************************************************************)
(* State-machine model of the Forge transaction builder (src/src/forge.js). *)
(*                                                                         *)
(* A Forge owns an input list (Cast instances), an output list (TxOut),    *)
(* an optional change script, fee rates and a draft transaction `tx`.      *)
(* Every public method is one action; the variables `op`, `err`, `ret`     *)
(* and `called` record the last call, the error it threw, the value it     *)
(* returned and the inputs whose signing strategy it invoked.  The history *)
(* variables `everBuilt`, `tampered` and `hadSig` record that build() was  *)
(* called, that the caller wrote into the draft since the last build(),    *)
(* and that the last build() discarded a draft holding a final script;     *)
(* `changeToValue` is the value the last read of changeTo returned.        *)
(*                                                                         *)
(* Scripts are sequences of chunks [opCodeNum, len, data]; len = -1 is a   *)
(* chunk without a buffer (a bare opcode), len >= 0 a push of len bytes.   *)
(* Fee rates are exact fractions <<numerator, denominator>> with dyadic    *)
(* denominators, for which the floating-point arithmetic of estimateFee    *)
(* is exact.                                                               *)
(***************************************************************************)
EXTENDS Integers, Sequences, FiniteSets, TLC

VARIABLES inputs, outputs, changeScript, options, tx,
          op, err, ret, called, everBuilt, tampered, hadSig, changeToValue

vars == <<inputs, outputs, changeScript, options, tx,
          op, err, ret, called, everBuilt, tampered, hadSig, changeToValue>>

(***************************************************************************)
(* Bounds of the model.                                                    *)
(***************************************************************************)
MaxInputs == 2

MaxOutputs == 2

(***************************************************************************)
(* Program constants.                                                      *)
(***************************************************************************)
DUST_LIMIT == 546

OP_FALSE == 0

OP_RETURN == 106

VersionBytes == 4

LocktimeBytes == 4

DefaultInputBytes == 148

ValueBytes == 8

ChangeAdjust == 16

None == "none"

defaults == [debug |-> FALSE,
             rates |-> [data |-> <<1, 2>>, standard |-> <<1, 2>>]]

(***************************************************************************)
(* Ledger primitives used by the builder: scripts, varints, addresses.     *)
(***************************************************************************)
OpChunk(n) == [opCodeNum |-> n, len |-> -1, data |-> None]

\* Script.writeBuffer: a push of `l` bytes (l < 76: the opcode is the length;
\* l < 256: OP_PUSHDATA1; l < 65536: OP_PUSHDATA2).
BufChunk(l, d) ==
    [opCodeNum |-> IF l < 76 THEN l ELSE IF l < 256 THEN 76 ELSE 77,
     len |-> l, data |-> d]

HasBuf(c) == c.len >= 0

ChunkBytes(c) ==
    IF ~HasBuf(c) THEN 1
    ELSE IF c.len < 76 THEN 1 + c.len
    ELSE IF c.len < 256 THEN 2 + c.len
    ELSE 3 + c.len

\* The bytes of the first n chunks of a script.
RECURSIVE ChunksBytes(_, _)
ChunksBytes(s, n) ==
    IF n = 0 THEN 0 ELSE ChunksBytes(s, n - 1) + ChunkBytes(s[n])

\* script.toBuffer().length
ScriptBytes(s) == ChunksBytes(s, Len(s))

\* VarInt.fromNumber(n).buf.length: 1 byte below 253, 3 bytes below 2^16 and
\* 5 bytes below 2^32 (every count and length of the model is below 2^31).
VarIntLen(n) ==
    IF n < 253 THEN 1
    ELSE IF n < 65536 THEN 3
    ELSE 5

\* new Script().fromPubKeyHash(hashBuf) / Address.toTxOutScript()
P2PKHScript(pkh) ==
    << OpChunk(118), OpChunk(169), BufChunk(20, pkh), OpChunk(136), OpChunk(172) >>

Addresses == {"addr1", "addr2"}

\* Address.fromString(addr).hashBuf
AddressHash(addr) == IF addr = "addr1" THEN "pkh1" ELSE "pkh2"

\* Address.fromPubKeyHashBuf(buf).toString()
HashAddress(pkh) ==
    IF pkh = "pkh1" THEN "addr1" ELSE IF pkh = "pkh2" THEN "addr2" ELSE "addr?"

\* Script.isOpReturn(): first chunk OP_RETURN and every later chunk a push.
isOpReturn(s) ==
    /\ Len(s) >= 1
    /\ s[1].opCodeNum = OP_RETURN
    /\ Cardinality({i \in 1..Len(s) : HasBuf(s[i])}) = Len(s) - 1

\* Script.isSafeDataOut(): OP_FALSE followed by an OP_RETURN script.
isSafeDataOut(s) ==
    /\ Len(s) >= 2
    /\ s[1].opCodeNum = OP_FALSE
    /\ isOpReturn(Tail(s))

\* TxOut.fromProperties(valueBn, script)
TxOutOf(v, s) == [valueBn |-> v, script |-> s]

\* txOut.scriptVi.toNumber() and txOut.scriptVi.buf.length
ScriptViNumber(txOut) == ScriptBytes(txOut.script)

ScriptViLen(txOut) == VarIntLen(ScriptBytes(txOut.script))

(***************************************************************************)
(* JavaScript helpers.                                                     *)
(***************************************************************************)
\* A numeric property that is absent (undefined).
Undefined == 0 - 1

\* A falsy numeric value: undefined or 0.
Falsy(x) == x = Undefined \/ x = 0

\* a || b || c
Or3(a, b, c) == IF ~Falsy(a) THEN a ELSE IF ~Falsy(b) THEN b ELSE c

(***************************************************************************)
(* The unlocking-script strategy (Cast): its outpoint, the prior output,   *)
(* its size, its placeholder and its scriptSig.                            *)
(***************************************************************************)
Keys == {"k1", "k2"}

\* The key pair that controls a public key hash.
KeyOf(pkh) == IF pkh = "pkh1" THEN "k1" ELSE "k2"

\* new Cast(p2pkh, txid, vout, txOut, nSequence): size() is 148 bytes.
P2PKHCast(txid, vout, txOut, nSequence) ==
    [txHashBuf |-> txid, txOutNum |-> vout, txOut |-> txOut,
     nSequence |-> nSequence, bytes |-> 148,
     key |-> KeyOf(txOut.script[3].data)]

\* A Cast of another template (pay-to-public-key): 114 bytes.
P2PKCast(txid, vout, txOut, nSequence, key) ==
    [txHashBuf |-> txid, txOutNum |-> vout, txOut |-> txOut,
     nSequence |-> nSequence, bytes |-> 114, key |-> key]

\* cast.size()
CastSize(cast) == cast.bytes

\* cast.placeholder()
Placeholder(cast) == [kind |-> "placeholder", key |-> None]

\* cast.scriptSig(forge, params) throws unless params hold the cast's key.
ScriptSigThrows(cast, params) == params # cast.key

\* cast.scriptSig(forge, params)
ScriptSig(cast, params) == [kind |-> "scriptSig", key |-> params]

\* The two inputs of the model: a pay-to-key-hash UTXO of 642 units and a
\* pay-to-public-key UTXO of 626 units.
CastA == P2PKHCast("h1", 1, TxOutOf(642, P2PKHScript("pkh1")), None)

CastC == P2PKCast("h3", 1, TxOutOf(626, <<BufChunk(33, "pub2"), OpChunk(172)>>),
                  None, "k2")

(***************************************************************************)
(* Script.fromHex on the hex strings the model uses.                       *)
(***************************************************************************)
HexP2PKH1 == "76a914[pkh1]88ac"

HexOpReturn == "6a04deadbeef"

\* The script of the single opcode OP_FALSE.
HexFalse == "00"

ValidHex(hex) == hex \in {HexP2PKH1, HexOpReturn, HexFalse}

ScriptFromHex(hex) ==
    IF hex = HexP2PKH1 THEN P2PKHScript("pkh1")
    ELSE IF hex = HexFalse THEN << OpChunk(OP_FALSE) >>
    ELSE << OpChunk(OP_RETURN), BufChunk(4, "deadbeef") >>

(***************************************************************************)
(* Forge.cast(castSchema, input), called with the p2pkh schema.            *)
(***************************************************************************)
ForgeCastThrows(input) == ~ValidHex(input.script)

ForgeCast(input) ==
    LET txid     == input.txid
        vout     == Or3(input.vout, input.outputIndex, input.txOutNum)
        script   == ScriptFromHex(input.script)
        satoshis == IF ~Falsy(input.satoshis) THEN input.satoshis ELSE input.amount
        txOut    == TxOutOf(satoshis, script)
    IN  P2PKHCast(txid, vout, txOut, input.nSequence)

(***************************************************************************)
(* dataToScript(data): OP_FALSE OP_RETURN and one chunk per item.          *)
(* An item is [t, n, d]: t = "hex" a 0x-prefixed string of n bytes,        *)
(* "num" the integer n, "null", "op" an object {op: n}, "str" any other    *)
(* value whose buffer has n bytes.                                         *)
(***************************************************************************)
DataItemChunk(item) ==
    IF item.t = "hex" THEN BufChunk(item.n, item.d)
    ELSE IF item.t = "num" THEN OpChunk(item.n)
    ELSE IF item.t = "null" THEN OpChunk(0)
    ELSE IF item.t = "op" THEN OpChunk(item.n)
    ELSE BufChunk(item.n, item.d)

dataToScript(data) ==
    << OpChunk(OP_FALSE), OpChunk(OP_RETURN) >>
        \o [i \in 1..Len(data) |-> DataItemChunk(data[i])]

(***************************************************************************)
(* Arguments of addInput and addOutput.                                    *)
(***************************************************************************)
\* An addInput argument: a Cast instance, or raw UTXO params.
CastArg(c) == [isCast |-> TRUE, cast |-> c, txid |-> None, vout |-> Undefined,
               outputIndex |-> Undefined, txOutNum |-> Undefined, script |-> None,
               satoshis |-> Undefined, amount |-> Undefined, nSequence |-> None]

RawArg(txid, vout, outputIndex, txOutNum, script, satoshis, amount) ==
    [isCast |-> FALSE, cast |-> None, txid |-> txid, vout |-> vout,
     outputIndex |-> outputIndex, txOutNum |-> txOutNum, script |-> script,
     satoshis |-> satoshis, amount |-> amount, nSequence |-> None]

\* Raw params of the UTXO that CastA spends ({vout: 0, outputIndex: 1,
\* satoshis: 0, amount: 642}), and raw params without a script.
RawA == RawArg("h1", 0, 1, Undefined, HexP2PKH1, 0, 642)

RawBad == RawArg("h1", 1, Undefined, Undefined, None, 642, Undefined)

InputArgs == {CastArg(CastA), CastArg(CastC), RawA, RawBad}

\* An addOutput argument {script, data, to, satoshis, amount}.
OutArg(script, data, to, satoshis, amount) ==
    [script |-> script, data |-> data, to |-> to,
     satoshis |-> satoshis, amount |-> amount]

NoData == << [t |-> "absent", n |-> 0, d |-> None] >>

HexItem == [t |-> "hex", n |-> 2, d |-> "aabb"]

NumItem == [t |-> "num", n |-> 0, d |-> None]

\* {to, satoshis: 547}, {to, amount: 546}, {data: ['0xaabb']},
\* {data: ['0xaabb', 0]}, {script}, all three hints, and no hint.
OutPay == OutArg(None, NoData, "addr2", DUST_LIMIT + 1, Undefined)

OutDust == OutArg(None, NoData, "addr1", Undefined, DUST_LIMIT)

OutData == OutArg(None, <<HexItem>>, None, Undefined, Undefined)

OutDataOp == OutArg(None, <<HexItem, NumItem>>, None, Undefined, Undefined)

OutOpReturn == OutArg(HexOpReturn, NoData, None, Undefined, Undefined)

OutAllHints == OutArg(HexOpReturn, <<HexItem>>, "addr1", Undefined, Undefined)

OutNoHint == OutArg(None, NoData, None, DUST_LIMIT + 1, Undefined)

\* {data: ['0xaabb'], to}: a data payload and an address, no script.
OutDataTo == OutArg(None, <<HexItem>>, "addr1", Undefined, Undefined)

\* {script: '00', satoshis: 547}: a script of the one chunk OP_FALSE.
OutFalse == OutArg(HexFalse, NoData, None, DUST_LIMIT + 1, Undefined)

OutputArgs == {OutPay, OutDust, OutData, OutDataOp, OutOpReturn,
               OutAllHints, OutNoHint, OutDataTo}

(***************************************************************************)
(* addInput / addOutput on one element.                                    *)
(***************************************************************************)
\* addInput(input) for a non-array input: the new input list and the error.
AddInputOne(ins, input) ==
    IF input.isCast THEN [list |-> Append(ins, input.cast), err |-> None]
    ELSE IF ForgeCastThrows(input)
         THEN [list |-> ins, err |-> "Input must be an instance of Cast"]
         ELSE [list |-> Append(ins, ForgeCast(input)), err |-> None]

\* A fault: the address is looked at first, then the data, then the script.
AddOutputOneToFirst(outs, output) ==
    LET satoshis == Or3(output.satoshis, output.amount, 0)
    IN  IF output.to # None
        THEN [list |-> Append(outs,
                  TxOutOf(satoshis, P2PKHScript(AddressHash(output.to)))),
              err |-> None]
        ELSE IF output.data # NoData
        THEN [list |-> Append(outs, TxOutOf(satoshis, dataToScript(output.data))),
              err |-> None]
        ELSE IF output.script # None
        THEN [list |-> Append(outs, TxOutOf(satoshis, ScriptFromHex(output.script))),
              err |-> None]
        ELSE [list |-> outs, err |-> "Invalid TxOut params"]

\* addOutput(output) for a non-array output.
AddOutputOne(outs, output) ==
    LET satoshis == Or3(output.satoshis, output.amount, 0)
    IN  IF output.script # None
        THEN [list |-> Append(outs, TxOutOf(satoshis, ScriptFromHex(output.script))),
              err |-> None]
        ELSE IF output.data # NoData
        THEN [list |-> Append(outs, TxOutOf(satoshis, dataToScript(output.data))),
              err |-> None]
        ELSE IF output.to # None
        THEN [list |-> Append(outs,
                  TxOutOf(satoshis, P2PKHScript(AddressHash(output.to)))),
              err |-> None]
        ELSE [list |-> outs, err |-> "Invalid TxOut params"]

(***************************************************************************)
(* addInput / addOutput on an array: input.forEach(i => this.addInput(i)). *)
(* The elements are added in order from index i; the first element that    *)
(* throws ends the loop and its error leaves the call.                     *)
(***************************************************************************)
\* A fault: a failing element rolls the whole array back.
AddInputEachOrNone(ins, arr, i) ==
    IF \E k \in i..Len(arr) : AddInputOne(ins, arr[k]).err # None
    THEN [list |-> ins, err |-> "Input must be an instance of Cast"]
    ELSE [list |-> ins \o [k \in 1..(Len(arr) - i + 1) |->
                              AddInputOne(<< >>, arr[k + i - 1]).list[1]],
          err |-> None]

RECURSIVE AddInputEach(_, _, _)
AddInputEach(ins, arr, i) ==
    IF i > Len(arr) THEN [list |-> ins, err |-> None]
    ELSE IF AddInputOne(ins, arr[i]).err # None THEN AddInputOne(ins, arr[i])
    ELSE AddInputEach(AddInputOne(ins, arr[i]).list, arr, i + 1)

RECURSIVE AddOutputEach(_, _, _)
AddOutputEach(outs, arr, i) ==
    IF i > Len(arr) THEN [list |-> outs, err |-> None]
    ELSE IF AddOutputOne(outs, arr[i]).err # None THEN AddOutputOne(outs, arr[i])
    ELSE AddOutputEach(AddOutputOne(outs, arr[i]).list, arr, i + 1)

(***************************************************************************)
(* inputSum / outputSum.                                                   *)
(***************************************************************************)
\* The reduce of lines 110-112 over the first n inputs.
RECURSIVE InputValues(_, _)
InputValues(ins, n) ==
    IF n = 0 THEN 0 ELSE InputValues(ins, n - 1) + ins[n].txOut.valueBn

inputSum(ins) == InputValues(ins, Len(ins))

\* The reduce of lines 121-123 over the first n outputs.
RECURSIVE OutputValues(_, _)
OutputValues(outs, n) ==
    IF n = 0 THEN 0 ELSE OutputValues(outs, n - 1) + outs[n].valueBn

outputSum(outs) == OutputValues(outs, Len(outs))

(***************************************************************************)
(* estimateFee(rates).                                                     *)
(***************************************************************************)
\* No change script is set (this.changeScript is undefined).
NoScript == << >>

Part(k, bytes) == [k |-> k, bytes |-> bytes]

\* The byte class of an output: line 317.
OutputType(script) ==
    IF script[1].opCodeNum = OP_FALSE /\ script[2].opCodeNum = OP_RETURN
    THEN "data" ELSE "standard"

\* Line 317 reads chunks[0].opCodeNum and, when that is 0,
\* chunks[1].opCodeNum, of whatever script the output has: a script without
\* chunks, and a script of the one chunk OP_FALSE, make it throw a TypeError.
OutputTypeThrows(script) ==
    \/ Len(script) = 0
    \/ Len(script) = 1 /\ script[1].opCodeNum = OP_FALSE

ChunkTypeError == "TypeError: chunks[1] is undefined"

\* estimateFee throws: the outputs loop of lines 315-320 reaches an output
\* whose class cannot be read.
estimateFeeThrows(outs) ==
    \E i \in 1..Len(outs) : OutputTypeThrows(outs[i].script)

\* 8 + scriptVi.buf.length + scriptVi.toNumber()
OutputBytes(txOut) == ValueBytes + ScriptViLen(txOut) + ScriptViNumber(txOut)

HeaderParts(ins, outs) ==
    << Part("standard", VersionBytes),
       Part("standard", LocktimeBytes),
       Part("standard", VarIntLen(Len(ins))),
       Part("standard", VarIntLen(Len(outs))) >>

InputParts(ins) ==
    IF Len(ins) > 0
    THEN [i \in 1..Len(ins) |-> Part("standard", CastSize(ins[i]))]
    ELSE << Part("standard", DefaultInputBytes) >>

\* A fault: only the last output is kept in the parts.
OutputPartsLastOnly(outs, chg) ==
    IF Len(outs) > 0
    THEN << Part(OutputType(outs[Len(outs)].script), OutputBytes(outs[Len(outs)])) >>
    ELSE IF chg # NoScript
    THEN << Part("standard", OutputBytes(TxOutOf(0, chg))) >>
    ELSE << >>

OutputParts(outs, chg) ==
    IF Len(outs) > 0
    THEN [i \in 1..Len(outs) |->
             Part(OutputType(outs[i].script), OutputBytes(outs[i]))]
    ELSE IF chg # NoScript
    THEN << Part("standard", OutputBytes(TxOutOf(0, chg))) >>
    ELSE << >>

FeeParts(ins, outs, chg) ==
    HeaderParts(ins, outs) \o InputParts(ins) \o OutputParts(outs, chg)

\* Rates are fractions <<n, d>>; the sum is kept over the common denominator.
RateDen(rates) == rates.standard[2] * rates.data[2]

RateScaled(rates, k) == (rates[k][1] * RateDen(rates)) \div rates[k][2]

\* parts.reduce(...) over the first n parts: the sum of bytes * rate, times
\* RateDen(rates).
RECURSIVE FeeReduce(_, _, _)
FeeReduce(parts, rates, n) ==
    IF n = 0 THEN 0
    ELSE FeeReduce(parts, rates, n - 1)
           + parts[n].bytes * RateScaled(rates, parts[n].k)

\* Math.ceil(n / d) for n >= 0, d > 0
Ceil(n, d) == (n + d - 1) \div d

\* The value estimateFee returns when it does not throw.
estimateFee(ins, outs, chg, rates) ==
    Ceil(FeeReduce(FeeParts(ins, outs, chg), rates, Len(FeeParts(ins, outs, chg))),
         RateDen(rates))

(***************************************************************************)
(* build().                                                                *)
(***************************************************************************)
\* new Tx()
NewTx == [txIns |-> << >>, txOuts |-> << >>]

\* A fault: build() keeps adding to the previous draft.
BuildStartKeep(old) == old

\* The draft build() starts from: line 203 discards the previous draft.
BuildStart(old) == NewTx

\* A fault: the draft input points at output 0 of the prior transaction.
TxInOfFirstOutput(cast) ==
    [txHashBuf |-> cast.txHashBuf, txOutNum |-> 0,
     script |-> Placeholder(cast), nSequence |-> cast.nSequence]

\* tx.addTxIn(cast.txHashBuf, cast.txOutNum, script, cast.nSequence)
TxInOf(cast) ==
    [txHashBuf |-> cast.txHashBuf, txOutNum |-> cast.txOutNum,
     script |-> Placeholder(cast), nSequence |-> cast.nSequence]

\* A fault: the inputs loop skips the first input.
AddTxInsSkipFirst(t, ins) ==
    [t EXCEPT !.txIns = @ \o [i \in 1..(Len(ins) - 1) |-> TxInOf(ins[i + 1])]]

AddTxIns(t, ins) ==
    [t EXCEPT !.txIns = @ \o [i \in 1..Len(ins) |-> TxInOf(ins[i])]]

\* The dust test of line 213.
IsDust(txOut) ==
    /\ txOut.valueBn <= DUST_LIMIT
    /\ ~isOpReturn(txOut.script)
    /\ ~isSafeDataOut(txOut.script)

\* Index of the first output that fails the dust test, 0 if none does.
FirstDust(outs) ==
    IF \E i \in 1..Len(outs) : IsDust(outs[i])
    THEN CHOOSE i \in 1..Len(outs) :
            IsDust(outs[i]) /\ \A j \in 1..(i - 1) : ~IsDust(outs[j])
    ELSE 0

\* A fault: the outputs are tested before any of them is added.
AddTxOutsChecked(t, outs) ==
    [t EXCEPT !.txOuts = @ \o (IF FirstDust(outs) = 0 THEN outs ELSE << >>)]

\* The outputs loop: outputs are added until one fails the dust test.
AddTxOuts(t, outs) ==
    LET k == FirstDust(outs)
    IN  [t EXCEPT !.txOuts =
            @ \o (IF k = 0 THEN outs ELSE SubSeq(outs, 1, k - 1))]

\* A fault: the fee is added to the change.
ChangeValueAddsFee(ins, outs, chg, rates) ==
    LET change == inputSum(ins) - outputSum(outs) + estimateFee(ins, outs, chg, rates)
    IN  IF Len(outs) > 0 THEN change - ChangeAdjust ELSE change

\* A fault: the change is never adjusted for the change output's own size.
ChangeValueNoAdjust(ins, outs, chg, rates) ==
    inputSum(ins) - outputSum(outs) - estimateFee(ins, outs, chg, rates)

\* Lines 221-228: the value left for the change output.
ChangeValue(ins, outs, chg, rates) ==
    LET change == inputSum(ins) - outputSum(outs) - estimateFee(ins, outs, chg, rates)
    IN  IF Len(outs) > 0 THEN change - ChangeAdjust ELSE change

\* A fault: a change of exactly the dust limit is kept.
ChangeWantedAtDust(change) == change >= DUST_LIMIT

\* Line 230.
ChangeWanted(change) == change > DUST_LIMIT

\* Lines 220-233.
AddChange(t, ins, outs, chg, rates) ==
    IF chg # NoScript /\ ChangeWanted(ChangeValue(ins, outs, chg, rates))
    THEN [t EXCEPT !.txOuts =
            Append(@, TxOutOf(ChangeValue(ins, outs, chg, rates), chg))]
    ELSE t

\* build(): the draft it leaves and the error it throws.  With a change
\* script it calls estimateFee() (line 221) after the outputs loop, and an
\* error of estimateFee leaves build() with the draft as the loops made it.
build(old, ins, outs, chg, rates) ==
    LET t1 == AddTxIns(BuildStart(old), ins)
        t2 == AddTxOuts(t1, outs)
    IN  IF FirstDust(outs) # 0
        THEN [tx |-> t2, err |-> "Cannot create output lesser than dust"]
        ELSE IF chg # NoScript /\ estimateFeeThrows(outs)
        THEN [tx |-> t2, err |-> ChunkTypeError]
        ELSE [tx |-> AddChange(t2, ins, outs, chg, rates), err |-> None]

(***************************************************************************)
(* signTxIn(vin, params) and sign(params).  vin counts from 0.             *)
(***************************************************************************)
\* Error('TX not built. Call build() first.')
NotBuilt == "TX not built"

\* A fault: the guard does not compare the outpoint hashes.
TxInMatchesNoHash(ins, t, vin) ==
    /\ vin + 1 <= Len(ins)
    /\ vin + 1 <= Len(t.txIns)

\* The guard of lines 274-278.
TxInMatches(ins, t, vin) ==
    /\ vin + 1 <= Len(ins)
    /\ vin + 1 <= Len(t.txIns)
    /\ ins[vin + 1].txHashBuf = t.txIns[vin + 1].txHashBuf

\* A fault: a successful signTxIn writes the script into every draft input.
signTxInAll(ins, t, vin, params) ==
    IF ~TxInMatches(ins, t, vin)
    THEN [tx |-> t, err |-> NotBuilt, called |-> {}]
    ELSE IF ScriptSigThrows(ins[vin + 1], params)
    THEN [tx |-> t, err |-> "StrategyError", called |-> {vin}]
    ELSE [tx |-> [t EXCEPT !.txIns = [j \in 1..Len(t.txIns) |->
                     [t.txIns[j] EXCEPT !.script = ScriptSig(ins[vin + 1], params)]]],
          err |-> None, called |-> {vin}]

signTxIn(ins, t, vin, params) ==
    IF ~TxInMatches(ins, t, vin)
    THEN [tx |-> t, err |-> NotBuilt, called |-> {}]
    ELSE IF ScriptSigThrows(ins[vin + 1], params)
    THEN [tx |-> t, err |-> "StrategyError", called |-> {vin}]
    ELSE [tx |-> [t EXCEPT !.txIns[vin + 1].script = ScriptSig(ins[vin + 1], params)],
          err |-> None, called |-> {vin}]

\* The catch block of line 258 builds the object { vin, params }; `vin` is
\* not bound in sign(), so evaluating it throws a ReferenceError before
\* debug is entered.  The result is the error leaving the catch block.
SignCatch(e) == "ReferenceError: vin is not defined"

RECURSIVE SignLoop(_, _, _, _, _)
SignLoop(ins, t, i, params, done) ==
    IF i >= Len(ins) THEN [tx |-> t, err |-> None, called |-> done]
    ELSE LET r == signTxIn(ins, t, i, params)
         IN  IF r.err # None /\ SignCatch(r.err) # None
             THEN [tx |-> r.tx, err |-> SignCatch(r.err),
                   called |-> done \cup r.called]
             ELSE SignLoop(ins, r.tx, i + 1, params, done \cup r.called)

\* A fault: sign() does not compare the input counts.
signUnchecked(ins, t, params) == SignLoop(ins, t, 0, params, {})

sign(ins, t, params) ==
    IF Len(ins) # Len(t.txIns)
    THEN [tx |-> t, err |-> NotBuilt, called |-> {}]
    ELSE SignLoop(ins, t, 0, params, {})

(***************************************************************************)
(* The state machine.                                                      *)
(***************************************************************************)
\* The rates argument of a call that passes none.
NoRates == [data |-> <<0, 1>>, standard |-> <<0, 1>>]

\* The last call: the method, the index argument of signTxIn and the rates
\* argument of estimateFee.
Op(name, vin, rates) == [name |-> name, vin |-> vin, rates |-> rates]

\* The last call, for addOutput and for the calls that were given an array:
\* the method and the argument list.
OpArray(name, args) ==
    [name |-> name, vin |-> Undefined, rates |-> NoRates, args |-> args]

\* Fee rates the model configures or passes: the defaults, and rates that
\* price data bytes below standard bytes.
DataRates == [data |-> <<1, 4>>, standard |-> <<1, 1>>]

RatePool == {defaults.rates, DataRates}

\* A change script that is not pay-to-key-hash shaped (pay-to-public-key).
P2PKScript == << BufChunk(33, "pub2"), OpChunk(172) >>

\* The script the constructor stores for its changeTo / changeScript options.
ConstructorChange(changeToArg, changeScriptArg) ==
    IF changeToArg # None THEN P2PKHScript(AddressHash(changeToArg))
    ELSE IF changeScriptArg # NoScript THEN changeScriptArg
    ELSE NoScript

\* new Forge({ changeTo, changeScript, options: { rates } })
Construct(rates, changeToArg, changeScriptArg) ==
    /\ inputs = << >>
    /\ outputs = << >>
    /\ options = [debug |-> defaults.debug, rates |-> rates]
    /\ changeScript = ConstructorChange(changeToArg, changeScriptArg)
    /\ tx = NewTx
    /\ op = Op("new", Undefined, NoRates)
    /\ err = None
    /\ ret = Undefined
    /\ called = {}
    /\ everBuilt = FALSE
    /\ tampered = FALSE
    /\ hadSig = FALSE
    /\ changeToValue = None

\* forge.addInput(input)
AddInput(input) ==
    /\ Len(inputs) < MaxInputs
    /\ inputs' = AddInputOne(inputs, input).list
    /\ err' = AddInputOne(inputs, input).err
    /\ op' = Op("addInput", Undefined, NoRates)
    /\ ret' = Undefined
    /\ called' = {}
    /\ UNCHANGED <<outputs, changeScript, options, tx, everBuilt, tampered>>
    /\ hadSig' = FALSE
    /\ changeToValue' = None

\* A fault: addOutput throws the draft away.
AddOutputClearsDraft(output) ==
    /\ Len(outputs) < MaxOutputs
    /\ outputs' = AddOutputOne(outputs, output).list
    /\ err' = AddOutputOne(outputs, output).err
    /\ op' = OpArray("addOutput", << output >>)
    /\ ret' = Undefined
    /\ called' = {}
    /\ tx' = NewTx
    /\ UNCHANGED <<inputs, changeScript, options, everBuilt, tampered>>
    /\ hadSig' = FALSE
    /\ changeToValue' = None

\* forge.addOutput(output)
AddOutput(output) ==
    /\ Len(outputs) < MaxOutputs
    /\ outputs' = AddOutputOne(outputs, output).list
    /\ err' = AddOutputOne(outputs, output).err
    /\ op' = OpArray("addOutput", << output >>)
    /\ ret' = Undefined
    /\ called' = {}
    /\ UNCHANGED <<inputs, changeScript, options, tx, everBuilt, tampered>>
    /\ hadSig' = FALSE
    /\ changeToValue' = None

\* forge.changeTo = address
SetChangeTo(address) ==
    /\ changeScript' = P2PKHScript(AddressHash(address))
    /\ op' = Op("changeTo=", Undefined, NoRates)
    /\ err' = None
    /\ ret' = Undefined
    /\ called' = {}
    /\ UNCHANGED <<inputs, outputs, options, tx, everBuilt, tampered>>
    /\ hadSig' = FALSE
    /\ changeToValue' = None

\* forge.build()
Build ==
    /\ tx' = build(tx, inputs, outputs, changeScript, options.rates).tx
    /\ err' = build(tx, inputs, outputs, changeScript, options.rates).err
    /\ op' = Op("build", Undefined, NoRates)
    /\ ret' = Undefined
    /\ called' = {}
    /\ everBuilt' = TRUE
    /\ tampered' = FALSE
    /\ hadSig' = (\E i \in 1..Len(tx.txIns) : tx.txIns[i].script.kind = "scriptSig")
    /\ changeToValue' = None
    /\ UNCHANGED <<inputs, outputs, changeScript, options>>

\* forge.sign(params)
Sign(params) ==
    /\ tx' = sign(inputs, tx, params).tx
    /\ err' = sign(inputs, tx, params).err
    /\ called' = sign(inputs, tx, params).called
    /\ op' = Op("sign", Undefined, NoRates)
    /\ ret' = Undefined
    /\ UNCHANGED <<inputs, outputs, changeScript, options, everBuilt, tampered>>
    /\ hadSig' = FALSE
    /\ changeToValue' = None

\* forge.signTxIn(vin, params)
SignTxIn(vin, params) ==
    /\ tx' = signTxIn(inputs, tx, vin, params).tx
    /\ err' = signTxIn(inputs, tx, vin, params).err
    /\ called' = signTxIn(inputs, tx, vin, params).called
    /\ op' = Op("signTxIn", vin, NoRates)
    /\ ret' = Undefined
    /\ UNCHANGED <<inputs, outputs, changeScript, options, everBuilt, tampered>>
    /\ hadSig' = FALSE
    /\ changeToValue' = None

\* A fault: estimateFee(rates) stores the rates it is given.
EstimateFeeStoresRates(given, rates) ==
    /\ ret' = IF estimateFeeThrows(outputs) THEN Undefined
              ELSE estimateFee(inputs, outputs, changeScript,
                               IF given THEN rates ELSE options.rates)
    /\ op' = Op("estimateFee", Undefined, IF given THEN rates ELSE NoRates)
    /\ options' = [options EXCEPT !.rates = IF given THEN rates ELSE @]
    /\ err' = IF estimateFeeThrows(outputs) THEN ChunkTypeError ELSE None
    /\ called' = {}
    /\ UNCHANGED <<inputs, outputs, changeScript, tx, everBuilt, tampered>>
    /\ hadSig' = FALSE
    /\ changeToValue' = None

\* forge.estimateFee() and forge.estimateFee(rates): the fee it returns, or
\* the error it throws.
EstimateFee(given, rates) ==
    /\ ret' = IF estimateFeeThrows(outputs) THEN Undefined
              ELSE estimateFee(inputs, outputs, changeScript,
                               IF given THEN rates ELSE options.rates)
    /\ op' = Op("estimateFee", Undefined, IF given THEN rates ELSE NoRates)
    /\ err' = IF estimateFeeThrows(outputs) THEN ChunkTypeError ELSE None
    /\ called' = {}
    /\ UNCHANGED <<inputs, outputs, changeScript, options, tx, everBuilt, tampered>>
    /\ hadSig' = FALSE
    /\ changeToValue' = None

\* The outpoint hash a caller writes into the draft's public txIns.
ForeignHash == "h0"

\* forge.tx.txIns[vin].txHashBuf = hash: the draft is a public field, and a
\* caller can put it out of step with the input list.
TamperTxIn(vin) ==
    /\ vin + 1 <= Len(tx.txIns)
    /\ tx.txIns[vin + 1].txHashBuf # ForeignHash
    /\ tx' = [tx EXCEPT !.txIns[vin + 1].txHashBuf = ForeignHash]
    /\ tampered' = TRUE
    /\ op' = Op("tamper", vin, NoRates)
    /\ err' = None
    /\ ret' = Undefined
    /\ called' = {}
    /\ hadSig' = FALSE
    /\ changeToValue' = None
    /\ UNCHANGED <<inputs, outputs, changeScript, options, everBuilt>>

(***************************************************************************)
(* Spec: the build / sign protocol.  A Forge with the default rates, with  *)
(* or without a change address, whose caller adds inputs and outputs,      *)
(* builds, signs, and may write into the draft.                            *)
(***************************************************************************)
MaxDraftOutputs == 1

DraftOutputArgs == {OutPay, OutDust}

Init ==
    \E changeToArg \in {None, "addr1"} :
        Construct(defaults.rates, changeToArg, NoScript)

Next ==
    \/ \E input \in InputArgs : AddInput(input)
    \/ \E output \in DraftOutputArgs :
          Len(outputs) < MaxDraftOutputs /\ AddOutput(output)
    \/ Build
    \/ \E params \in Keys : Sign(params)
    \/ \E vin \in 0..MaxInputs, params \in Keys : SignTxIn(vin, params)
    \/ EstimateFee(FALSE, defaults.rates)
    \/ \E vin \in 0..(MaxInputs - 1) : TamperTxIn(vin)

Spec == Init /\ [][Next]_vars

(***************************************************************************)
(* SpecBuild: fee estimation and build().  Any configured rates and change *)
(* destination, every kind of output, no signing.  estimateFee is called   *)
(* without an argument, and with rates other than the configured ones.     *)
(***************************************************************************)
InitBuild ==
    \E rates \in RatePool, changeToArg \in {None, "addr1"},
       changeScriptArg \in {NoScript, P2PKScript} :
        Construct(rates, changeToArg, changeScriptArg)

NextBuild ==
    \/ \E input \in InputArgs : AddInput(input)
    \/ \E output \in OutputArgs : AddOutput(output)
    \/ Build
    \/ \E rates \in RatePool : EstimateFee(rates # options.rates, rates)

SpecBuild == InitBuild /\ [][NextBuild]_vars

(***************************************************************************)
(* SpecFee: the byte class of an output.  The outputs are a payment, data  *)
(* payloads of pushes and of a push and an opcode, a script that begins    *)
(* with OP_RETURN, and a script of the one chunk OP_FALSE.                 *)
(***************************************************************************)
FeeOutputArgs == {OutPay, OutData, OutDataOp, OutOpReturn, OutFalse}

NextFee ==
    \/ \E input \in {CastArg(CastA), CastArg(CastC)} : AddInput(input)
    \/ \E output \in FeeOutputArgs : AddOutput(output)
    \/ Build
    \/ \E rates \in RatePool : EstimateFee(rates # options.rates, rates)

SpecFee == InitBuild /\ [][NextFee]_vars

(***************************************************************************)
(* SpecChange: the change destination, written and read back.              *)
(***************************************************************************)
\* A change script of three chunks that is not pay-to-key-hash shaped:
\* OP_FALSE OP_RETURN and a push of 20 bytes.
DataChangeScript ==
    << OpChunk(OP_FALSE), OpChunk(OP_RETURN), BufChunk(20, "pkh1") >>

\* get changeTo(): the value returned and the error thrown.  Without a
\* change script the getter returns undefined.  Otherwise it reads
\* chunks[2].buf with no test of the script's shape: a script of fewer than
\* three chunks throws a TypeError (chunks[2] is undefined), and any script
\* whose third chunk is a push yields the address of the pushed bytes.
changeTo(chg) ==
    IF chg = NoScript THEN [value |-> None, err |-> None]
    ELSE IF Len(chg) < 3
    THEN [value |-> None, err |-> "TypeError: pkh is undefined"]
    ELSE [value |-> HashAddress(chg[3].data), err |-> None]

\* forge.changeTo
GetChangeTo ==
    /\ changeToValue' = changeTo(changeScript).value
    /\ err' = changeTo(changeScript).err
    /\ op' = Op("changeTo", Undefined, NoRates)
    /\ ret' = Undefined
    /\ called' = {}
    /\ UNCHANGED <<inputs, outputs, changeScript, options, tx, everBuilt, tampered>>
    /\ hadSig' = FALSE

InitChange ==
    \E changeToArg \in {None} \cup Addresses,
       changeScriptArg \in {NoScript, P2PKScript, DataChangeScript} :
        Construct(defaults.rates, changeToArg, changeScriptArg)

NextChange ==
    \/ \E address \in Addresses : SetChangeTo(address)
    \/ GetChangeTo
    \/ \E input \in InputArgs : AddInput(input)
    \/ \E output \in DraftOutputArgs :
          Len(outputs) < MaxDraftOutputs /\ AddOutput(output)
    \/ Build

SpecChange == InitChange /\ [][NextChange]_vars

(***************************************************************************)
(* SpecDraft: the draft between build() and sign().  Every method of the   *)
(* Builder is called: inputs and up to MaxOutputs outputs are added before *)
(* and after build(), also outputs that make build() abort, and the draft  *)
(* is signed as it stands.                                                 *)
(***************************************************************************)
InitDraft ==
    \E changeToArg \in {None, "addr1"} :
        Construct(defaults.rates, changeToArg, NoScript)

NextDraft ==
    \/ \E input \in InputArgs : AddInput(input)
    \/ \E output \in DraftOutputArgs : AddOutput(output)
    \/ Build
    \/ \E params \in Keys : Sign(params)
    \/ \E vin \in 0..(MaxInputs - 1), params \in Keys : SignTxIn(vin, params)
    \/ EstimateFee(FALSE, defaults.rates)
    \/ \E address \in Addresses : SetChangeTo(address)
    \/ GetChangeTo

SpecDraft == InitDraft /\ [][NextDraft]_vars

(***************************************************************************)
(* SpecAdd: addInput and addOutput called with arrays.                     *)
(***************************************************************************)
\* The longest array passed in one call.
MaxArray == 3

\* Array elements: two Cast instances and raw params without a script;
\* {to, satoshis}, {data} and params without any hint.
InputElems == {CastArg(CastA), CastArg(CastC), RawBad}

OutputElems == {OutPay, OutData, OutNoHint}

InputArrays == UNION {[1..n -> InputElems] : n \in 0..MaxArray}

OutputArrays == UNION {[1..n -> OutputElems] : n \in 0..MaxArray}

\* forge.addInput([...])
AddInputArray(arr) ==
    /\ Len(AddInputEach(inputs, arr, 1).list) <= MaxInputs
    /\ inputs' = AddInputEach(inputs, arr, 1).list
    /\ err' = AddInputEach(inputs, arr, 1).err
    /\ op' = OpArray("addInput[]", arr)
    /\ ret' = Undefined
    /\ called' = {}
    /\ UNCHANGED <<outputs, changeScript, options, tx, everBuilt, tampered>>
    /\ hadSig' = FALSE
    /\ changeToValue' = None

\* forge.addOutput([...])
AddOutputArray(arr) ==
    /\ Len(AddOutputEach(outputs, arr, 1).list) <= MaxOutputs
    /\ outputs' = AddOutputEach(outputs, arr, 1).list
    /\ err' = AddOutputEach(outputs, arr, 1).err
    /\ op' = OpArray("addOutput[]", arr)
    /\ ret' = Undefined
    /\ called' = {}
    /\ UNCHANGED <<inputs, changeScript, options, tx, everBuilt, tampered>>
    /\ hadSig' = FALSE
    /\ changeToValue' = None

InitAdd == Construct(defaults.rates, None, NoScript)

NextAdd ==
    \/ \E arr \in InputArrays : AddInputArray(arr)
    \/ \E arr \in OutputArrays : AddOutputArray(arr)

SpecAdd == InitAdd /\ [][NextAdd]_vars

(***************************************************************************)
(* Properties.                                                             *)
(***************************************************************************)
DustError == "Cannot create output lesser than dust"

\* The last call was a build() that returned without an error.
BuiltOk == op.name = "build" /\ err = None

\* The change the change output would carry, computed from the Builder.
ChangeDue ==
    inputSum(inputs) - outputSum(outputs)
        - estimateFee(inputs, outputs, changeScript, options.rates)
        - (IF Len(outputs) > 0 THEN 16 ELSE 0)

\* A null-data script: a provably unspendable script that carries a
\* payload.  It begins with OP_RETURN, or with OP_FALSE OP_RETURN as every
\* script made of a data payload does, whatever items follow.
IsNullData(script) ==
    \/ Len(script) >= 1 /\ script[1].opCodeNum = OP_RETURN
    \/ /\ Len(script) >= 2
       /\ script[1].opCodeNum = OP_FALSE
       /\ script[2].opCodeNum = OP_RETURN

\* C1 (as stated): sign(params) on a draft in step with the input list
\* returns without an error, and every input whose strategy succeeds with
\* params holds its final unlocking script afterwards, also when the
\* strategy of an earlier input throws.
C1_SignBestEffort ==
    [][\A params \in Keys :
        (Sign(params) /\ everBuilt /\ ~tampered /\ Len(inputs) = Len(tx.txIns))
        => /\ err' = None
           /\ \A i \in 1..Len(inputs) :
                 ~ScriptSigThrows(inputs[i], params)
                 => tx'.txIns[i].script = ScriptSig(inputs[i], params)]_vars

\* C2 (as stated): right after a successful build() the draft has as many
\* inputs as the input list and as many outputs as the output list.
C2_CountsEqualLists ==
    BuiltOk => /\ Len(tx.txIns) = Len(inputs)
               /\ Len(tx.txOuts) = Len(outputs)

\* C2 (amended): right after a successful build() the draft has as many
\* inputs as the input list, and as many outputs as the output list plus
\* one when a change destination is set and the change exceeds 546.
C2_CountsWithChange ==
    BuiltOk => /\ Len(tx.txIns) = Len(inputs)
               /\ Len(tx.txOuts) = Len(outputs)
                    + (IF changeScript # NoScript /\ ChangeDue > 546 THEN 1 ELSE 0)

\* C2 witness: a successful build() of two inputs and two outputs that
\* appended a change output.
C2_Witness ==
    /\ BuiltOk
    /\ Len(inputs) = 2
    /\ Len(outputs) = 2
    /\ Len(tx.txOuts) = 3

\* C3 (as stated): after a successful build() the values of the draft's
\* outputs sum to at most the sum of the input values.
C3_OutputsWithinInputs ==
    BuiltOk => outputSum(tx.txOuts) <= inputSum(inputs)

\* C3 (amended): after a successful build() that appended a change output,
\* or whose declared outputs do not exceed the inputs, the values of the
\* draft's outputs sum to at most the sum of the input values.
C3_ChangeWithinInputs ==
    (BuiltOk /\ (Len(tx.txOuts) > Len(outputs)
                   \/ outputSum(outputs) <= inputSum(inputs)))
    => outputSum(tx.txOuts) <= inputSum(inputs)

\* C3 witness: a successful build() that appended a change output after a
\* declared output, the draft spending less than the inputs.
C3_Witness ==
    /\ BuiltOk
    /\ Len(outputs) >= 1
    /\ Len(tx.txOuts) = Len(outputs) + 1
    /\ outputSum(tx.txOuts) < inputSum(inputs)

\* C4: with a change destination set, a successful build() appends after
\* the declared outputs exactly one output of value c to the change script
\* iff c = inputSum - outputSum - estimateFee() - (16 if there are outputs)
\* exceeds 546; otherwise, and without a change destination, the draft's
\* outputs are the declared outputs.
C4_ChangeRule ==
    BuiltOk =>
        IF changeScript # NoScript /\ ChangeDue > 546
        THEN tx.txOuts = Append(outputs, TxOutOf(ChangeDue, changeScript))
        ELSE tx.txOuts = outputs

\* C4 witness: a successful build() with declared outputs that appended a
\* change output of value c.
C4_Witness ==
    /\ BuiltOk
    /\ changeScript # NoScript
    /\ Len(outputs) >= 1
    /\ ChangeDue > 546
    /\ tx.txOuts[Len(tx.txOuts)] = TxOutOf(ChangeDue, changeScript)

\* C5 (as stated): build() throws the dust error exactly when a declared
\* output has a value of at most 546 and a script that is not a null-data
\* script, so never for outputs of data payloads with no value; after a
\* successful build() every output of the draft that is not null-data, the
\* change output included, has a value above 546.
C5_DustRule ==
    op.name = "build" =>
        /\ (err = DustError) <=>
              (\E i \in 1..Len(outputs) :
                  outputs[i].valueBn <= 546 /\ ~IsNullData(outputs[i].script))
        /\ err = None =>
              \A i \in 1..Len(tx.txOuts) :
                  ~IsNullData(tx.txOuts[i].script) => tx.txOuts[i].valueBn > 546

\* The draft build() makes of the Builder's lists when nothing precedes it.
FreshDraft == build(NewTx, inputs, outputs, changeScript, options.rates).tx

\* C6: build() leaves the draft a never-built, never-signed Builder with
\* the same lists would get, every unlocking script a placeholder, whatever
\* draft it replaces; a build() right after a build() leaves the same draft.
C6_BuildIdempotent ==
    [][Build =>
        /\ tx' = FreshDraft
        /\ \A i \in 1..Len(tx'.txIns) : tx'.txIns[i].script.kind = "placeholder"
        /\ op.name = "build" => (tx' = tx /\ err' = err)]_vars

\* C6 witness: a successful build() that replaced a draft holding a final
\* unlocking script.
C6_Witness ==
    /\ BuiltOk
    /\ hadSig
    /\ Len(tx.txIns) = 2

\* signTxIn's index exists in the input list and in the draft, with the
\* same outpoint hash in both.
HashesAgree(vin) ==
    /\ vin < Len(inputs)
    /\ vin < Len(tx.txIns)
    /\ inputs[vin + 1].txHashBuf = tx.txIns[vin + 1].txHashBuf

\* C7: signTxIn(vin, params) throws the not-built error, calls no strategy
\* and leaves the draft as it was, when build() was never called, and when
\* the vin-th input is missing from the input list or the draft or its
\* outpoint hash differs between the two.
C7_SignTxInNotBuilt ==
    [][\A vin \in 0..MaxInputs, params \in Keys :
        (SignTxIn(vin, params) /\ (~everBuilt \/ ~HashesAgree(vin)))
        => (err' = NotBuilt /\ called' = {} /\ tx' = tx)]_vars

\* C7 witness: signTxIn threw the not-built error on a built draft whose
\* vin-th outpoint hash differs from the input list's.
C7_Witness ==
    /\ op.name = "signTxIn"
    /\ err = NotBuilt
    /\ everBuilt
    /\ op.vin < Len(inputs)
    /\ op.vin < Len(tx.txIns)
    /\ inputs[op.vin + 1].txHashBuf # tx.txIns[op.vin + 1].txHashBuf

\* C8 (as stated): sign() throws the not-built error and signs nothing when
\* build() was never called, whatever the input list, and when the input
\* list and the draft differ in length.
C8_SignBeforeBuild ==
    [][\A params \in Keys :
        (Sign(params) /\ (~everBuilt \/ Len(inputs) # Len(tx.txIns)))
        => (err' = NotBuilt /\ called' = {} /\ tx' = tx)]_vars

\* C8 (amended): sign() throws the not-built error and signs nothing when
\* the input list and the draft differ in length: before any build() with a
\* non-empty input list, and after inputs were added since the last build().
C8_SignOutOfStep ==
    [][\A params \in Keys :
        (Sign(params) /\ Len(inputs) # Len(tx.txIns))
        => (err' = NotBuilt /\ called' = {} /\ tx' = tx)]_vars

\* C8 witness: sign() threw the not-built error on a draft built before the
\* last input was added.
C8_Witness ==
    /\ op.name = "sign"
    /\ err = NotBuilt
    /\ everBuilt
    /\ Len(tx.txIns) >= 1
    /\ Len(inputs) > Len(tx.txIns)

\* estimateFee() of the Builder as it stands.
FeeNow == estimateFee(inputs, outputs, changeScript, options.rates)

\* addInput and addOutput append: after one that succeeded, the list before
\* the call is the list without its last element.
Front(seq) == SubSeq(seq, 1, Len(seq) - 1)

InputAdded == op.name = "addInput" /\ err = None

OutputAdded == op.name = "addOutput" /\ err = None

\* C9 (as stated): appending an input or an output never lowers
\* estimateFee().
C9_FeeMonotone ==
    /\ InputAdded =>
          FeeNow >= estimateFee(Front(inputs), outputs, changeScript, options.rates)
    /\ OutputAdded =>
          FeeNow >= estimateFee(inputs, Front(outputs), changeScript, options.rates)

\* C9 (amended): appending an input to a non-empty input list, or an output
\* to a non-empty output list or to an empty one when no change destination
\* is set, never lowers estimateFee().
C9_FeeMonotoneNonEmpty ==
    /\ (InputAdded /\ Len(inputs) > 1) =>
          FeeNow >= estimateFee(Front(inputs), outputs, changeScript, options.rates)
    /\ (OutputAdded /\ (Len(outputs) > 1 \/ changeScript = NoScript)) =>
          FeeNow >= estimateFee(inputs, Front(outputs), changeScript, options.rates)

\* C9 witness: an input was appended to a non-empty input list and the
\* estimate rose.
C9_Witness ==
    /\ InputAdded
    /\ Len(inputs) = 2
    /\ FeeNow > estimateFee(Front(inputs), outputs, changeScript, options.rates)

\* The bytes estimateFee counts in a byte class, from the Builder: the
\* header and the inputs (or 148 bytes without inputs) are standard; an
\* output of class cls counts 8 + the varint of its script length + its
\* script length; without outputs, a change script counts as one standard
\* output.  data(script) tells whether an output is of class data.
RECURSIVE ClassOutputBytes(_, _, _, _)
ClassOutputBytes(cls, data(_), outs, n) ==
    IF n = 0 THEN 0
    ELSE ClassOutputBytes(cls, data, outs, n - 1)
           + (IF data(outs[n].script) <=> (cls = "data")
              THEN 8 + VarIntLen(ScriptBytes(outs[n].script))
                     + ScriptBytes(outs[n].script)
              ELSE 0)

RECURSIVE SizeSum(_, _)
SizeSum(ins, n) == IF n = 0 THEN 0 ELSE SizeSum(ins, n - 1) + CastSize(ins[n])

StandardBytes(data(_)) ==
    4 + 4 + VarIntLen(Len(inputs)) + VarIntLen(Len(outputs))
      + (IF Len(inputs) = 0 THEN 148 ELSE SizeSum(inputs, Len(inputs)))
      + ClassOutputBytes("standard", data, outputs, Len(outputs))
      + (IF Len(outputs) = 0 /\ changeScript # NoScript
         THEN 8 + VarIntLen(ScriptBytes(changeScript)) + ScriptBytes(changeScript)
         ELSE 0)

DataBytes(data(_)) == ClassOutputBytes("data", data, outputs, Len(outputs))

\* The ceiling of standard bytes * standard rate + data bytes * data rate:
\* the least integer not below the sum.
FeeOf(rates, data(_)) ==
    LET den == rates.standard[2] * rates.data[2]
        num == StandardBytes(data) * rates.standard[1] * rates.data[2]
                 + DataBytes(data) * rates.data[1] * rates.standard[2]
    IN  CHOOSE f \in (num \div den)..(num \div den + 1) :
            f * den >= num /\ (f - 1) * den < num

\* One pay-to-key-hash input and one pay-to-key-hash output.
OneP2PKHInOut ==
    /\ Len(inputs) = 1 /\ CastSize(inputs[1]) = 148
    /\ Len(outputs) = 1 /\ ScriptBytes(outputs[1].script) = 25

\* The rates the last estimateFee call used.
RatesUsed == IF op.rates = NoRates THEN options.rates ELSE op.rates

\* C10 (as stated): estimateFee(rates) returns the ceiling of the sum of
\* bytes * rate over the byte classes, an output being of class data when
\* its script is a null-data script and standard otherwise; for one p2pkh
\* input and one p2pkh output at the default rates it returns
\* ceil((4+4+1+1+148+34) * 0.5).
C10_FeeFormulaNullData ==
    op.name = "estimateFee" =>
        /\ err = None
        /\ ret = FeeOf(RatesUsed, IsNullData)
        /\ (OneP2PKHInOut /\ RatesUsed = defaults.rates) => ret = 96

\* C11: estimateFee, with or without a rates argument, changes neither the
\* input list, the output list, the change script, the configured options
\* nor the draft; and a call without an argument returns the fee at the
\* configured rates, whatever rates earlier calls were given.
C11_EstimateFeeFrame ==
    [][op'.name = "estimateFee" =>
          /\ UNCHANGED <<inputs, outputs, changeScript, options, tx>>
          /\ (op'.rates = NoRates =>
                 ret' = estimateFee(inputs, outputs, changeScript, options.rates))
      ]_vars

\* estimateFee(rates) was called on a built Forge with rates other than the
\* configured ones, and returned a fee the configured rates do not give.
C11_Witness ==
    /\ op.name = "estimateFee"
    /\ op.rates # NoRates
    /\ op.rates # options.rates
    /\ ret # FeeNow
    /\ Len(tx.txIns) > 0
    /\ Len(outputs) > 0

\* The element fails construction: raw params no Cast can be made from; an
\* output without script, data and address.
InputFails(input) == ~input.isCast /\ ForgeCastThrows(input)

OutputFails(output) ==
    output.script = None /\ output.data = NoData /\ output.to = None

\* The Cast / the output an element that does not fail is stored as.
InputMade(input) == IF input.isCast THEN input.cast ELSE ForgeCast(input)

OutputMade(output) == AddOutputOne(<< >>, output).list[1]

\* Index of the first element of arr that fails, Len(arr) + 1 if none does.
FirstFailing(arr, Fails(_)) ==
    IF \E k \in 1..Len(arr) : Fails(arr[k])
    THEN CHOOSE k \in 1..Len(arr) :
            Fails(arr[k]) /\ \A j \in 1..(k - 1) : ~Fails(arr[j])
    ELSE Len(arr) + 1

\* C12: addInput (addOutput) with an array whose first failing element is
\* element k fails with the construction error and leaves the list extended
\* by the elements before k, in their order, and by nothing else; with no
\* failing element it appends them all and returns without an error.
C12_ArrayPrefix ==
    [][/\ op'.name = "addInput[]" =>
            LET arr == op'.args
                k   == FirstFailing(arr, InputFails)
            IN  /\ inputs' = inputs \o [i \in 1..(k - 1) |-> InputMade(arr[i])]
                /\ err' = IF k <= Len(arr)
                          THEN "Input must be an instance of Cast" ELSE None
       /\ op'.name = "addOutput[]" =>
            LET arr == op'.args
                k   == FirstFailing(arr, OutputFails)
            IN  /\ outputs' = outputs \o [i \in 1..(k - 1) |-> OutputMade(arr[i])]
                /\ err' = IF k <= Len(arr) THEN "Invalid TxOut params" ELSE None
      ]_vars

\* addInput([castA, {no script}, castC]) on a Forge holding castC failed:
\* castA was appended, the element after the failing one was not.
C12_Witness ==
    /\ op.name = "addInput[]"
    /\ op.args = << CastArg(CastA), RawBad, CastArg(CastC) >>
    /\ err = "Input must be an instance of Cast"
    /\ inputs = << CastC, CastA >>

\* C13: as long as the draft is written only by build(), signTxIn() and
\* sign(), every input of the draft has a Builder input at its index, and
\* carries that input's outpoint hash and output index.
C13_DraftInputsMatch ==
    ~tampered =>
        \A i \in 1..Len(tx.txIns) :
            /\ i <= Len(inputs)
            /\ tx.txIns[i].txHashBuf = inputs[i].txHashBuf
            /\ tx.txIns[i].txOutNum = inputs[i].txOutNum

\* An input was added after build(), and an input of the stale draft was
\* then signed.
C13_Witness ==
    /\ ~tampered
    /\ op.name = "signTxIn"
    /\ err = None
    /\ Len(tx.txIns) > 0
    /\ Len(inputs) > Len(tx.txIns)
    /\ tx.txIns[op.vin + 1].script.kind = "scriptSig"

\* The standard pay-to-key-hash shape:
\* OP_DUP OP_HASH160 <20 bytes> OP_EQUALVERIFY OP_CHECKSIG.
IsP2PKH(script) ==
    /\ Len(script) = 5
    /\ script[1] = OpChunk(118)
    /\ script[2] = OpChunk(169)
    /\ HasBuf(script[3]) /\ script[3].len = 20
    /\ script[4] = OpChunk(136)
    /\ script[5] = OpChunk(172)

\* C14 (as stated): reading changeTo returns the address of the stored
\* script when that script is pay-to-key-hash shaped, and returns no address
\* (and raises nothing) when no script is stored or the stored script has
\* another shape; after changeTo is set, the stored script is the
\* pay-to-key-hash script of an address.
C14_ChangeToOnlyP2PKH ==
    /\ op.name = "changeTo" =>
          IF changeScript # NoScript /\ IsP2PKH(changeScript)
          THEN err = None /\ changeToValue = HashAddress(changeScript[3].data)
          ELSE err = None /\ changeToValue = None
    /\ op.name = "changeTo=" =>
          \E address \in Addresses :
              changeScript = P2PKHScript(AddressHash(address))

\* The step appended exactly one output, with the given locking script, and
\* raised nothing.
OutputAppended(script) ==
    /\ err' = None
    /\ Len(outputs') = Len(outputs) + 1
    /\ Front(outputs') = outputs
    /\ outputs'[Len(outputs')].script = script

\* C15: addOutput(output) appends exactly one output whose locking script
\* comes from the explicit script if there is one, else from the data
\* payload if there is one, else from the address; with none of the three
\* it fails with the construction error and the output list is unchanged.
C15_FirstHintWins ==
    [][op'.name = "addOutput" =>
          LET output == op'.args[1]
          IN  IF output.script # None
              THEN OutputAppended(ScriptFromHex(output.script))
              ELSE IF output.data # NoData
              THEN OutputAppended(dataToScript(output.data))
              ELSE IF output.to # None
              THEN OutputAppended(P2PKHScript(AddressHash(output.to)))
              ELSE err' = "Invalid TxOut params" /\ outputs' = outputs
      ]_vars

\* addOutput was given a script, a data payload and an address at once, and
\* appended the output of the script as the second output.
C15_Witness ==
    /\ op.name = "addOutput"
    /\ op.args[1] = OutAllHints
    /\ err = None
    /\ Len(outputs) = 2
    /\ outputs[2].script = << OpChunk(OP_RETURN), BufChunk(4, "deadbeef") >>

\* C16: a signTxIn(vin, params) that succeeds changes nothing but the
\* unlocking script of draft input vin; one that fails leaves the draft as
\* it was.  Either way the input list, the output list and the change script
\* are unchanged.
C16_SignTxInFrame ==
    [][op'.name = "signTxIn" =>
          /\ UNCHANGED <<inputs, outputs, changeScript>>
          /\ IF err' = None
             THEN /\ tx'.txOuts = tx.txOuts
                  /\ Len(tx'.txIns) = Len(tx.txIns)
                  /\ \A j \in 1..Len(tx.txIns) :
                        IF j = op'.vin + 1
                        THEN tx'.txIns[j] =
                               [tx.txIns[j] EXCEPT !.script = tx'.txIns[j].script]
                        ELSE tx'.txIns[j] = tx.txIns[j]
             ELSE tx' = tx
      ]_vars

\* signTxIn(1, params) succeeded on a draft with an output whose input 0
\* had been signed before, and input 0 still holds its final script.
C16_Witness ==
    /\ op.name = "signTxIn"
    /\ op.vin = 1
    /\ err = None
    /\ Len(tx.txIns) = 2
    /\ tx.txIns[1].script = ScriptSig(inputs[1], inputs[1].key)
    /\ tx.txIns[2].script = ScriptSig(inputs[2], inputs[2].key)
    /\ inputs[1].key # inputs[2].key
    /\ Len(tx.txOuts) > 0

\* C17: a build() that aborts with the dust error leaves a new draft with
\* one placeholder input per Builder input, in order, and exactly the
\* declared outputs before the first one that fails the dust test (so no
\* change output); a sign() that follows does not fail as "not built".
C17_DustAbortDraft ==
    [][/\ (op'.name = "build" /\ err' = DustError) =>
            /\ FirstDust(outputs') # 0
            /\ tx'.txIns = [i \in 1..Len(inputs') |-> TxInOf(inputs'[i])]
            /\ tx'.txOuts = SubSeq(outputs', 1, FirstDust(outputs') - 1)
       /\ (op.name = "build" /\ err = DustError /\ op'.name = "sign") =>
            /\ Len(tx.txIns) = Len(inputs)
            /\ err' # NotBuilt
      ]_vars

\* build() aborted at the second of two declared outputs: the new draft
\* holds both inputs and the first output only, and the draft it replaced
\* held a final unlocking script.
C17_Witness ==
    /\ op.name = "build"
    /\ err = DustError
    /\ hadSig
    /\ changeScript # NoScript
    /\ Len(inputs) = 2
    /\ Len(outputs) = 2
    /\ Len(tx.txIns) = 2
    /\ tx.txOuts = << outputs[1] >>

\* C18: of the Builder's methods only build(), sign() and signTxIn() change
\* the draft.  So when an output has been added to a built Forge whose draft
\* has as many inputs as the input list, sign() and signTxIn() of an
\* existing input do not fail as "not built", and they leave the outputs of
\* the draft, the change output among them, as the earlier build() made them.
C18_StaleDraft ==
    [][/\ tx' # tx => op'.name \in {"build", "sign", "signTxIn"}
       /\ (/\ op.name = "addOutput" /\ err = None
           /\ everBuilt /\ Len(inputs) = Len(tx.txIns)
           /\ \/ op'.name = "sign"
              \/ op'.name = "signTxIn" /\ op'.vin < Len(inputs)) =>
            /\ err' # NotBuilt
            /\ tx'.txOuts = tx.txOuts
      ]_vars

\* A Forge with two inputs and a change address was built without outputs,
\* an output was added, and sign() then signed both inputs of a draft that
\* still holds the old change output alone.
C18_Witness ==
    /\ op.name = "sign"
    /\ err = None
    /\ called = {0, 1}
    /\ Len(outputs) = 1
    /\ Len(tx.txOuts) = 1
    /\ tx.txOuts[1].script = changeScript
    /\ tx.txOuts[1].valueBn =
          inputSum(inputs) - estimateFee(inputs, << >>, changeScript, options.rates)
    /\ tx.txOuts # FreshDraft.txOuts
    /\ \A i \in 1..2 : tx.txIns[i].script.kind = "scriptSig"

\* The fee the draft implies: the input values less the values of all the
\* outputs of the draft.
ImpliedFee == inputSum(inputs) - outputSum(tx.txOuts)

\* The last call was a build() that returned without an error and appended
\* a change output.
BuiltWithChange ==
    /\ BuiltOk
    /\ Len(tx.txOuts) = Len(outputs) + 1
    /\ tx.txOuts[Len(tx.txOuts)].script = changeScript

\* C19: after a build() that appended a change output, the fee the draft
\* implies is estimateFee() when no output was declared and
\* estimateFee() + 16 when one was; so it is never below estimateFee().
C19_ImpliedFee ==
    BuiltWithChange =>
        /\ ImpliedFee >= FeeNow
        /\ ImpliedFee = FeeNow + (IF Len(outputs) = 0 THEN 0 ELSE 16)

\* build() appended a change output after a declared payment, and the
\* draft implies a fee of estimateFee() + 16.
C19_Witness ==
    /\ BuiltWithChange
    /\ Len(outputs) = 1
    /\ outputs[1].valueBn > DUST_LIMIT
    /\ tx.txOuts[2].valueBn > DUST_LIMIT
    /\ FeeNow > 0
    /\ ImpliedFee = FeeNow + 16

====
